---- MODULE Spec2Model ----
(***************************************************************************)
(* Model of straddle_pricer.py: the analytical straddle price, the Monte   *)
(* Carlo estimator in loop form, the vectorized five-batch estimator, the  *)
(* single-path simulator and the script's "fixed return" average.          *)
(*                                                                         *)
(* Floating-point numbers are modelled as exact rationals <<num, den>>     *)
(* (den > 0, lowest terms); NaN is <<0, 0>>: the rounding of IEEE          *)
(* arithmetic is not modelled.  The normal generator is a nondeterministic *)
(* choice of each draw from a finite sample of the reals.                  *)
(***************************************************************************)
EXTENDS Integers, Sequences, FiniteSets

(* ------------------------------ bounds -------------------------------- *)
\* Longest simulated path (days) and largest path count that are explored.
MaxDays == 2
MaxPaths == 2
\* Largest n_days * mc_paths matrix explored in five_prices.
MaxCells == 2

(* -------------------------- program constants ------------------------- *)
DaysPerYear == 252
NumBatches == 5
ScriptPaths == 100

(* ----------------------------- rationals ------------------------------ *)
None == <<>>
NaN == <<0, 0>>
Zero == <<0, 1>>
One == <<1, 1>>

Abs(n) == IF n < 0 THEN -n ELSE n

RECURSIVE GCD(_, _)
GCD(a, b) == IF b = 0 THEN a ELSE GCD(b, a % b)

Norm(n, d) == LET g == GCD(Abs(n), d) IN <<n \div g, d \div g>>

IsNaN(x) == x[2] = 0

RAdd(x, y) ==
    IF IsNaN(x) \/ IsNaN(y) THEN NaN
    ELSE Norm(x[1] * y[2] + y[1] * x[2], x[2] * y[2])

RSub(x, y) ==
    IF IsNaN(x) \/ IsNaN(y) THEN NaN
    ELSE Norm(x[1] * y[2] - y[1] * x[2], x[2] * y[2])

RMul(x, y) ==
    IF IsNaN(x) \/ IsNaN(y) THEN NaN
    ELSE Norm(x[1] * y[1], x[2] * y[2])

RAbs(x) == <<Abs(x[1]), x[2]>>

RLess(x, y) == ~IsNaN(x) /\ ~IsNaN(y) /\ x[1] * y[2] < y[1] * x[2]

\* numpy float64 / int: 0.0 / 0 is nan (a warning, no exception).
RDivInt(x, k) ==
    IF IsNaN(x) \/ k = 0 THEN NaN
    ELSE IF k > 0 THEN Norm(x[1], x[2] * k)
    ELSE Norm(-x[1], x[2] * (-k))

(* ------------------------------ inputs -------------------------------- *)
\* Annualized volatilities offered to the functions.
VolSet == {<<-1, 5>>, <<0, 1>>, <<1, 5>>, <<2, 5>>}
SimVolSet == {<<-1, 5>>, <<0, 1>>, <<1, 5>>}
\* Time horizons in years.
TimeSet ==
    {<<k, DaysPerYear>> : k \in -1..MaxDays}
        \cup {<<-1, 504>>, <<1, 100>>, <<1, 2>>, <<1, 1>>}
PathSet == 0..MaxPaths
\* Inputs of the runs that pair simulate_asset_path with straddle_pricer_mc.
PairTimeSet == {<<k, DaysPerYear>> : k \in 0..MaxDays} \cup {<<-1, 504>>}
PairPathSet == {0, 1, 2}
\* The sample of the reals a draw with a positive scale is taken from.
ReturnSet == {<<-1, 2>>, <<1, 4>>}

(* ------------------------- straddle_price ----------------------------- *)
\* Variant of straddle_price that leaves out the factor sqrt(time).
straddle_price_no_time(v, t) ==
    IF t[1] < 0 THEN [nan |-> TRUE, coef |-> Zero, rad |-> Zero]
    ELSE [nan |-> FALSE, coef |-> v, rad |-> One]

\* K * coef * sqrt(rad) with K = 2 / (2*pi)**0.5 > 0, kept symbolic;
\* np.sqrt of a negative number is nan.
straddle_price(v, t) ==
    IF t[1] < 0 THEN [nan |-> TRUE, coef |-> Zero, rad |-> Zero]
    ELSE [nan |-> FALSE, coef |-> v, rad |-> t]

\* sign of coef * sqrt(rad)
SymSign(p) ==
    IF p.rad[1] = 0 \/ p.coef[1] = 0 THEN 0
    ELSE IF p.coef[1] > 0 THEN 1 ELSE -1

\* coef^2 * rad
SymSquare(p) == RMul(RMul(p.coef, p.coef), p.rad)

\* p < q as real numbers
SymLess(p, q) ==
    /\ ~p.nan /\ ~q.nan
    /\ \/ SymSign(p) < SymSign(q)
       \/ SymSign(p) = 1 /\ SymSign(q) = 1 /\ RLess(SymSquare(p), SymSquare(q))
       \/ SymSign(p) = -1 /\ SymSign(q) = -1 /\ RLess(SymSquare(q), SymSquare(p))

(* --------------------------- shared helpers --------------------------- *)
\* int(time * 252): Python's int() truncates toward zero.
NDays(t) ==
    IF t[1] >= 0 THEN (t[1] * DaysPerYear) \div t[2]
    ELSE -(((-t[1]) * DaysPerYear) \div t[2])

\* sign of daily_vol = an_vol / sqrt(252)
DailyVolSign(v) == IF v[1] > 0 THEN 1 ELSE IF v[1] < 0 THEN -1 ELSE 0

\* np.random.normal raises ValueError for scale < 0 or a negative dimension.
NormalRaises(v, n, m) == DailyVolSign(v) < 0 \/ n < 0 \/ m < 0

\* The values one draw of np.random.normal(0, daily_vol) can take.
Support(v) == IF DailyVolSign(v) = 0 THEN {Zero} ELSE ReturnSet

\* np.random.normal(0, daily_vol, n_days)
NormalVec(v, n) == [1..n -> Support(v)]

\* np.random.normal(0, daily_vol, (n_days, mc_paths))
NormalMat(v, n, m) == [1..n -> [1..m -> Support(v)]]

\* 1 + returns
OnePlus(s) == [i \in 1..Len(s) |-> RAdd(One, s[i])]

\* np.prod over a 1-D array, left to right; the empty product is 1.
RECURSIVE Prod(_)
Prod(s) ==
    IF s = <<>> THEN One
    ELSE RMul(Prod(SubSeq(s, 1, Len(s) - 1)), s[Len(s)])

\* Series.cumprod(): the running product.
RECURSIVE CumProd(_)
CumProd(s) ==
    IF s = <<>> THEN <<>>
    ELSE LET c == CumProd(SubSeq(s, 1, Len(s) - 1))
         IN  Append(c, IF c = <<>> THEN s[1] ELSE RMul(c[Len(c)], s[Len(s)]))

\* np.abs(np.prod(1 + returns) - 1)
StraddleReturn(path) == RAbs(RSub(Prod(OnePlus(path)), One))

\* ndarray.sum(): numpy adds the two halves of a long array separately.
RECURSIVE SumSeq(_)
SumSeq(s) ==
    IF Len(s) = 0 THEN Zero
    ELSE IF Len(s) = 1 THEN s[1]
    ELSE LET h == Len(s) \div 2
         IN  RAdd(SumSeq(SubSeq(s, 1, h)), SumSeq(SubSeq(s, h + 1, Len(s))))

VARIABLES
    pc,              \* position of the running call, "idle" between calls
    op,              \* the function called last
    an_vol, time, mc_paths,   \* its arguments
    n_days,          \* local n_days
    iter,            \* completed loop iterations
    result_sum,      \* straddle_pricer_mc's accumulator
    returns,         \* local 1-D array of the last path drawn
    data,            \* five_prices' local matrix
    tmp,             \* the temporary array data + 1
    price,           \* five_prices' local price
    results,         \* five_prices' local list
    ranges,          \* per batch, the generator positions <<from, to>> it used
    ret,             \* value returned by the last call
    outcome,         \* "none", "ok", "ValueError", "ZeroDivisionError", "cut"
    rngPos,          \* draws the generator has produced since the last call began
    prev,            \* the straddle_price call before the last one
    simulated_asset, \* script global (line 93)
    straddle_return, \* script global (line 93)
    simArgs,         \* arguments and draws of the call that set them
    mc_avg           \* script global (line 99)

vars == <<pc, op, an_vol, time, mc_paths, n_days, iter, result_sum, returns,
          data, tmp, price, results, ranges, ret, outcome, rngPos, prev,
          simulated_asset, straddle_return, simArgs, mc_avg>>

callVars == <<op, an_vol, time, mc_paths, n_days>>
mcVars == <<iter, result_sum, returns>>
fiveVars == <<data, tmp, price, results, ranges>>
scriptVars == <<simulated_asset, straddle_return, simArgs, mc_avg>>

Init ==
    /\ pc = "idle"
    /\ op = "none"
    /\ an_vol = Zero /\ time = Zero /\ mc_paths = 0 /\ n_days = 0
    /\ iter = 0
    /\ result_sum = Zero
    /\ returns = None
    /\ data = None /\ tmp = None /\ price = None
    /\ results = <<>>
    /\ ranges = <<>>
    /\ ret = None
    /\ outcome = "none"
    /\ rngPos = 0
    /\ prev = None
    /\ simulated_asset = None
    /\ straddle_return = None
    /\ simArgs = None
    /\ mc_avg = None

(* ------------------- straddle_price (lines 6-17) ---------------------- *)
StraddlePrice(v, t) ==
    /\ pc = "idle"
    /\ prev' = IF op = "straddle_price"
               THEN [an_vol |-> an_vol, time |-> time, value |-> ret]
               ELSE prev
    /\ op' = "straddle_price"
    /\ an_vol' = v /\ time' = t
    /\ ret' = straddle_price(v, t)
    /\ outcome' = "ok"
    /\ UNCHANGED <<pc, mc_paths, n_days, rngPos>>
    /\ UNCHANGED <<mcVars, fiveVars, scriptVars>>

(* ---------------- straddle_pricer_mc (lines 20-40) -------------------- *)
\* Variant of the accumulation that leaves out np.abs.
PathAccumulateSigned(acc, path) == RAdd(acc, RSub(Prod(OnePlus(path)), One))

\* result_sum += np.abs(np.prod(1 + returns) - 1)
PathAccumulate(acc, path) == RAdd(acc, StraddleReturn(path))

\* result_sum / mc_paths, for mc_paths # 0
MCResult(acc, m) == RDivInt(acc, m)

\* lines 32-34
MCEnter(v, t, m) ==
    /\ pc = "idle"
    /\ op' = "straddle_pricer_mc"
    /\ an_vol' = v /\ time' = t /\ mc_paths' = m
    /\ n_days' = NDays(t)
    /\ iter' = 0
    /\ result_sum' = Zero
    /\ returns' = None
    /\ ret' = None
    /\ IF NDays(t) > MaxDays
       THEN pc' = "idle" /\ outcome' = "cut"
       ELSE pc' = "mc_loop" /\ outcome' = "none"
    /\ rngPos' = 0
    /\ UNCHANGED <<prev, fiveVars, scriptVars>>

\* one iteration of the loop with the path the generator produced
MCIterWith(path) ==
    /\ returns' = path
    /\ result_sum' = PathAccumulate(result_sum, path)
    /\ iter' = iter + 1
    /\ rngPos' = rngPos + n_days
    /\ UNCHANGED <<pc, ret, outcome>>

\* lines 36-38
MCIter ==
    /\ pc = "mc_loop"
    /\ iter < mc_paths
    /\ IF NormalRaises(an_vol, n_days, 0)
       THEN /\ pc' = "idle"
            /\ outcome' = "ValueError"
            /\ UNCHANGED <<ret, rngPos, mcVars>>
       ELSE \E path \in NormalVec(an_vol, n_days) : MCIterWith(path)
    /\ UNCHANGED <<callVars, prev, fiveVars, scriptVars>>

\* line 40
MCReturn ==
    /\ pc = "mc_loop"
    /\ iter >= mc_paths
    /\ pc' = "idle"
    /\ IF mc_paths = 0
       THEN outcome' = "ZeroDivisionError" /\ ret' = None
       ELSE outcome' = "ok" /\ ret' = MCResult(result_sum, mc_paths)
    /\ UNCHANGED <<callVars, rngPos, prev, mcVars, fiveVars, scriptVars>>

(* --------------- simulate_asset_path (lines 62-78, 93) ---------------- *)
\* Variant of the frame whose price column accumulates the raw returns.
AssetFrameNoPlus(path) ==
    [return |-> OnePlus(path), price |-> CumProd(path)]

\* df = DataFrame(returns + 1, columns=['return']); df['price'] = cumprod
AssetFrame(path) ==
    [return |-> OnePlus(path), price |-> CumProd(OnePlus(path))]

SimulateAssetPath(v, t) ==
    /\ pc = "idle"
    /\ op' = "simulate_asset_path"
    /\ an_vol' = v /\ time' = t
    /\ n_days' = NDays(t)
    /\ IF NDays(t) > MaxDays
       THEN /\ outcome' = "cut" /\ ret' = None /\ rngPos' = 0
            /\ UNCHANGED <<returns, scriptVars>>
       ELSE IF NormalRaises(v, NDays(t), 0)
       THEN /\ outcome' = "ValueError" /\ ret' = None /\ rngPos' = 0
            /\ UNCHANGED <<returns, scriptVars>>
       ELSE \E path \in NormalVec(v, NDays(t)) :
            /\ returns' = path
            /\ rngPos' = NDays(t)
            /\ outcome' = "ok"
            /\ ret' = StraddleReturn(path)
            /\ simulated_asset' = AssetFrame(path)
            /\ straddle_return' = StraddleReturn(path)
            /\ simArgs' = [an_vol |-> v, time |-> t, draws |-> path]
            /\ UNCHANGED mc_avg
    /\ UNCHANGED <<pc, mc_paths, iter, result_sum, prev, fiveVars>>

(* ------------- script step 5 (lines 97-99): the fixed mean ------------ *)
\* Variant of the mean that divides by one less than the count.
MeanBessel(xs) == RDivInt(SumSeq(xs), Len(xs) - 1)

\* np.mean(xs)
Mean(xs) == RDivInt(SumSeq(xs), Len(xs))

ScriptMean ==
    /\ pc = "idle"
    /\ straddle_return # None
    /\ mc_avg' = Mean([k \in 1..ScriptPaths |-> straddle_return])
    /\ UNCHANGED <<pc, callVars, ret, outcome, rngPos, prev>>
    /\ UNCHANGED <<mcVars, fiveVars, simulated_asset, straddle_return, simArgs>>

(* ------------------- five_prices (lines 43-59) ------------------------ *)
\* data + 1
MatOnePlus(a) ==
    [shape |-> a.shape, batch |-> a.batch,
     cells |-> [d \in 1..a.shape[1] |->
                   [j \in 1..a.shape[2] |-> RAdd(a.cells[d][j], One)]]]

\* column j of a matrix, top to bottom
Column(a, j) == [d \in 1..a.shape[1] |-> a.cells[d][j]]

\* Variant of the reduction that multiplies along the rows (axis=1).
ProdAxis1(a) == [d \in 1..a.shape[1] |-> Prod(a.cells[d])]

\* a.prod(axis=0): one product per column
ProdAxis0(a) == [j \in 1..a.shape[2] |-> Prod(Column(a, j))]

\* (np.abs(a.prod(axis=0) - 1).sum()) / mc_paths
BatchReduce(a, m) ==
    LET p == ProdAxis0(a)
    IN  RDivInt(SumSeq([j \in 1..Len(p) |-> RAbs(RSub(p[j], One))]), m)

\* lines 50-52
FiveEnter(v, t, m) ==
    /\ pc = "idle"
    /\ op' = "five_prices"
    /\ an_vol' = v /\ time' = t /\ mc_paths' = m
    /\ n_days' = NDays(t)
    /\ iter' = 0
    /\ results' = <<>>
    /\ ranges' = <<>>
    /\ data' = None /\ tmp' = None /\ price' = None
    /\ ret' = None
    /\ rngPos' = 0
    /\ IF NDays(t) > MaxDays \/ NDays(t) * m > MaxCells
       THEN pc' = "idle" /\ outcome' = "cut"
       ELSE pc' = "five_draw" /\ outcome' = "none"
    /\ UNCHANGED <<result_sum, returns, prev, scriptVars>>

\* line 55 with the matrix the generator produced
FiveDrawWith(mat) ==
    /\ data' = [shape |-> <<n_days, mc_paths>>, batch |-> iter + 1,
                cells |-> mat]
    /\ ranges' = Append(ranges, <<rngPos, rngPos + n_days * mc_paths>>)
    /\ rngPos' = rngPos + n_days * mc_paths
    /\ pc' = "five_add"
    /\ UNCHANGED <<outcome, tmp, price, results>>

\* line 55
FiveDraw ==
    /\ pc = "five_draw"
    /\ iter < NumBatches
    /\ IF NormalRaises(an_vol, n_days, mc_paths)
       THEN /\ pc' = "idle"
            /\ outcome' = "ValueError"
            /\ data' = None /\ tmp' = None /\ price' = None /\ results' = <<>>
            /\ UNCHANGED <<rngPos, ranges>>
       ELSE \E mat \in NormalMat(an_vol, n_days, mc_paths) : FiveDrawWith(mat)
    /\ UNCHANGED <<callVars, iter, result_sum, returns, ret, prev, scriptVars>>

\* line 56, the operand data + 1: a new array of data's shape
FiveAdd ==
    /\ pc = "five_add"
    /\ tmp' = MatOnePlus(data)
    /\ pc' = "five_reduce"
    /\ UNCHANGED <<callVars, mcVars, data, price, results, ranges, ret,
                   outcome, rngPos, prev, scriptVars>>

\* line 56, the reduction; the temporary is released after it
FiveReduce ==
    /\ pc = "five_reduce"
    /\ price' = BatchReduce(tmp, mc_paths)
    /\ tmp' = None
    /\ pc' = "five_append"
    /\ UNCHANGED <<callVars, mcVars, data, results, ranges, ret, outcome,
                   rngPos, prev, scriptVars>>

\* Variant of line 57 that inserts the price at the front of the list.
FiveAppendFront ==
    /\ pc = "five_append"
    /\ results' = <<price>> \o results
    /\ iter' = iter + 1
    /\ pc' = "five_draw"
    /\ UNCHANGED <<callVars, result_sum, returns, data, tmp, price, ranges,
                   ret, outcome, rngPos, prev, scriptVars>>

\* line 57
FiveAppend ==
    /\ pc = "five_append"
    /\ results' = Append(results, price)
    /\ iter' = iter + 1
    /\ pc' = "five_draw"
    /\ UNCHANGED <<callVars, result_sum, returns, data, tmp, price, ranges,
                   ret, outcome, rngPos, prev, scriptVars>>

\* line 59: the list is returned, the locals are released
FiveReturn ==
    /\ pc = "five_draw"
    /\ iter >= NumBatches
    /\ ret' = results
    /\ outcome' = "ok"
    /\ pc' = "idle"
    /\ data' = None /\ tmp' = None /\ price' = None /\ results' = <<>>
    /\ UNCHANGED <<callVars, mcVars, ranges, rngPos, prev, scriptVars>>

NextPrice == \E v \in VolSet, t \in TimeSet : StraddlePrice(v, t)

SpecPrice == Init /\ [][NextPrice]_vars

NextMC ==
    \/ \E v \in SimVolSet, t \in PairTimeSet, m \in PairPathSet :
          MCEnter(v, t, m)
    \/ MCIter
    \/ MCReturn
    \/ \E v \in SimVolSet, t \in PairTimeSet : SimulateAssetPath(v, t)

SpecMC == Init /\ [][NextMC]_vars

NextScript ==
    \/ \E v \in SimVolSet, t \in TimeSet : SimulateAssetPath(v, t)
    \/ ScriptMean

SpecScript == Init /\ [][NextScript]_vars

NextFive ==
    \/ \E v \in SimVolSet, t \in TimeSet, m \in PathSet : FiveEnter(v, t, m)
    \/ FiveDraw
    \/ FiveAdd
    \/ FiveReduce
    \/ FiveAppend
    \/ FiveReturn

SpecFive == Init /\ [][NextFive]_vars

(* ---- the loop form and the vectorized form on one matrix of draws ---- *)
InitEquiv ==
    /\ \E v \in {<<0, 1>>, <<1, 5>>}, n \in 0..MaxDays, m \in 0..MaxPaths :
          /\ an_vol = v /\ time = <<n, DaysPerYear>>
          /\ n_days = n /\ mc_paths = m
          /\ \E mat \in NormalMat(v, n, m) :
                data = [shape |-> <<n, m>>, batch |-> 1, cells |-> mat]
    /\ pc = "equiv_batch"
    /\ op = "none"
    /\ iter = 0
    /\ result_sum = Zero
    /\ returns = None
    /\ tmp = None /\ price = None
    /\ results = <<>>
    /\ ranges = <<>>
    /\ ret = None
    /\ outcome = "none"
    /\ rngPos = 0
    /\ prev = None
    /\ simulated_asset = None
    /\ straddle_return = None
    /\ simArgs = None
    /\ mc_avg = None

\* line 56 on the matrix
EquivBatch ==
    /\ pc = "equiv_batch"
    /\ price' = BatchReduce(MatOnePlus(data), mc_paths)
    /\ pc' = "equiv_loop"
    /\ UNCHANGED <<callVars, mcVars, data, tmp, results, ranges, ret, outcome,
                   rngPos, prev, scriptVars>>

\* lines 36-38 with column iter + 1 of the matrix as the path drawn
EquivIter ==
    /\ pc = "equiv_loop"
    /\ iter < mc_paths
    /\ MCIterWith(Column(data, iter + 1))
    /\ UNCHANGED <<callVars, prev, fiveVars, scriptVars>>

\* line 40
EquivReturn ==
    /\ pc = "equiv_loop"
    /\ iter >= mc_paths
    /\ pc' = "equiv_done"
    /\ IF mc_paths = 0
       THEN outcome' = "ZeroDivisionError" /\ ret' = None
       ELSE outcome' = "ok" /\ ret' = MCResult(result_sum, mc_paths)
    /\ UNCHANGED <<callVars, rngPos, prev, mcVars, fiveVars, scriptVars>>

NextEquiv == EquivBatch \/ EquivIter \/ EquivReturn

SpecEquiv == InitEquiv /\ [][NextEquiv]_vars

(* ============================== claims ================================ *)

\* floor(t * 252)
FloorDays(t) == (t[1] * DaysPerYear) \div t[2]

C2_SamePath ==
    op = "straddle_pricer_mc" /\ pc = "idle" /\ outcome = "ok"
    /\ mc_paths = 1 /\ simArgs # None
    /\ simArgs.an_vol = an_vol /\ simArgs.time = time
    /\ simArgs.draws = returns

C2_SinglePathAgrees == C2_SamePath => ret = straddle_return

C2_Witness == C2_SamePath /\ n_days >= 2 /\ ret # Zero

\* C3 (as claimed): every call a simulating function accepts used
\* n_days = floor(time * 252) and drew paths of that many days.
C3_FloorDays ==
    op = "simulate_asset_path" /\ outcome = "ok" /\ an_vol[1] > 0 =>
        n_days = FloorDays(time) /\ Len(returns) = FloorDays(time)

\* the price of one batch, from the per-path straddle returns of its columns
C4_RefPrice(a) ==
    Mean([j \in 1..a.shape[2] |-> StraddleReturn(Column(a, j))])

C4_State ==
    op = "five_prices" =>
        /\ pc # "idle" => Len(results) = iter
        /\ pc = "idle" /\ outcome = "ok" =>
              Len(ret) = NumBatches /\ Len(ranges) = NumBatches
        /\ pc = "five_draw" /\ iter >= 1 =>
              data.batch = iter /\ results[iter] = C4_RefPrice(data)
        /\ \A i \in 1..Len(ranges) :
              /\ ranges[i][2] - ranges[i][1] = n_days * mc_paths
              /\ \A j \in 1..Len(ranges) : i < j => ranges[i][2] <= ranges[j][1]

C4_Step ==
    op = "five_prices" /\ op' = "five_prices" /\ pc # "idle" =>
        /\ pc' # "idle" =>
              \A i \in 1..Len(results) : results'[i] = results[i]
        /\ pc' = "idle" /\ outcome' = "ok" => ret' = results

\* C4: five_prices returns exactly 5 values in generation order; the i-th is
\* the price of the i-th matrix drawn, each matrix is n_days * mc_paths fresh
\* draws, and no draw belongs to two batches.
C4_FiveInOrder == [](C4_State) /\ [][C4_Step]_vars

\* A completed call with one-day paths whose first two prices differ.
C4_Witness ==
    /\ op = "five_prices" /\ pc = "idle" /\ outcome = "ok"
    /\ Len(ret) = NumBatches
    /\ n_days >= 1 /\ mc_paths >= 1
    /\ ret[1] # ret[2]

C5_Invalid ==
    \/ an_vol[1] <= 0
    \/ time[1] <= 0
    \/ op \in {"straddle_pricer_mc", "five_prices"} /\ mc_paths = 0
    \/ op # "straddle_price" /\ n_days = 0

\* C5 (as claimed): a call with an invalid parameter ends with an
\* InvalidParameter error and returns no price.
C5_FailFast ==
    pc = "idle" /\ op # "none" /\ outcome # "cut" /\ C5_Invalid =>
        outcome = "InvalidParameter" /\ ret = None

C6_Positive ==
    /\ op = "straddle_price" /\ prev # None
    /\ an_vol[1] > 0 /\ time[1] > 0
    /\ prev.an_vol[1] > 0 /\ prev.time[1] > 0

\* C6: for positive an_vol and time, straddle_price is strictly increasing
\* in an_vol (time fixed) and strictly increasing in sqrt(time), that is in
\* time (an_vol fixed).
C6_Monotone ==
    C6_Positive =>
        /\ prev.time = time /\ RLess(prev.an_vol, an_vol) =>
              SymLess(prev.value, ret)
        /\ prev.an_vol = an_vol /\ RLess(prev.time, time) =>
              SymLess(prev.value, ret)

\* Two calls at one volatility, the later with the longer horizon.
C6_Witness ==
    C6_Positive /\ prev.an_vol = an_vol /\ RLess(prev.time, time)

\* 1 for a live array with at least one cell, else 0
C8_Live(a) ==
    IF a = None THEN 0
    ELSE IF a.shape[1] * a.shape[2] = 0 THEN 0 ELSE 1

\* C8 (as claimed): during a call of five_prices with a positive an_vol
\* and time at most one (non-empty) n_days * mc_paths array is live.
C8_OneBuffer ==
    op = "five_prices" /\ pc # "idle" /\ an_vol[1] > 0 /\ time[1] > 0 =>
        C8_Live(data) + C8_Live(tmp) <= 1

====
